---------------------------- MODULE Spec2Model ----------------------------
(***************************************************************************)
(* Model of the polylog crate: the real and complex dilogarithm (li2.rs),   *)
(* the complex tetralogarithm and its signed-zero canonicalising complex    *)
(* logarithm cln (li4.rs).                                                  *)
(*                                                                          *)
(* Numbers.  An f64 is modelled in sign-magnitude form, as IEEE-754 stores  *)
(* it: [s, n, d, e] is (-1)^s * (n/d) * 2^(-e) with n/d in lowest terms.    *)
(* Both zeros exist (n = 0 with s = 0 or s = 1).  Arithmetic is exact on    *)
(* the rationals, except that an operand more than 2^53 times smaller than  *)
(* the other is absorbed by an addition, as rounding to nearest does.       *)
(* Logarithms and arguments are kept as exact symbolic values (the number   *)
(* whose logarithm is taken; the angle as half-turns plus the arctangent    *)
(* of a reduced direction); where the code compares them with a threshold   *)
(* they are evaluated in fixed point by a series.                           *)
(***************************************************************************)
EXTENDS Integers, Sequences, FiniteSets, TLC

(***************************************************************************)
(* Bounds of the model.                                                     *)
(***************************************************************************)
\* inputs are multiples of 1/GridDen ...
GridDen == 4
\* ... of magnitude at most MaxMag/GridDen
MaxMag == 12
\* the tiny inputs are +-2^(-TinyExp): small enough for |z|^2 < EPSILON
TinyExp == 60
\* coefficient tables of the Clenshaw specification have entries in
\* -MaxCoef..MaxCoef
MaxCoef == 1

(***************************************************************************)
(* f64 values                                                               *)
(***************************************************************************)
RECURSIVE GCD(_, _)
GCD(a, b) == IF b = 0 THEN a ELSE GCD(b, a % b)

Abs(i) == IF i < 0 THEN -i ELSE i

\* the value (-1)^s * (n/d) * 2^(-e), in lowest terms
MkF(s, n, d, e) ==
    IF n = 0 THEN [s |-> s, n |-> 0, d |-> 1, e |-> 0]
    ELSE LET g == GCD(n, d)
         IN  [s |-> s, n |-> n \div g, d |-> d \div g, e |-> e]

\* the f64 nearest to the signed rational num/den (den > 0)
Rat(num, den) == MkF(IF num < 0 THEN 1 ELSE 0, Abs(num), den, 0)

PosZero == [s |-> 0, n |-> 0, d |-> 1, e |-> 0]
NegZero == [s |-> 1, n |-> 0, d |-> 1, e |-> 0]
\* what a division by zero yields (an infinity or a NaN): it is absorbing,
\* and every comparison with it is false
NonFinite == [s |-> 0, n |-> 0, d |-> 0, e |-> 0]

IsFinite(a) == a.d # 0
IsZero(a) == a.d # 0 /\ a.n = 0
Sgn(a) == IF a.n = 0 THEN 0 ELSE IF a.s = 1 THEN -1 ELSE 1

FNeg(a) == IF IsFinite(a) THEN [a EXCEPT !.s = 1 - a.s] ELSE NonFinite

FMul(a, b) ==
    IF ~IsFinite(a) \/ ~IsFinite(b) THEN NonFinite
    ELSE MkF((a.s + b.s) % 2, a.n * b.n, a.d * b.d, a.e + b.e)

FDiv(a, b) ==
    IF ~IsFinite(a) \/ ~IsFinite(b) \/ b.n = 0 THEN NonFinite
    ELSE MkF((a.s + b.s) % 2, a.n * b.d, a.d * b.n, a.e - b.e)

\* IEEE addition: x + (-x) = +0, (-0) + (-0) = -0; operands of different
\* binary scale: the smaller one is below half an ulp of the larger
FAdd(a, b) ==
    IF ~IsFinite(a) \/ ~IsFinite(b) THEN NonFinite
    ELSE IF a.n = 0 /\ b.n = 0 THEN (IF a.s = 1 /\ b.s = 1 THEN NegZero ELSE PosZero)
    ELSE IF a.n = 0 THEN b
    ELSE IF b.n = 0 THEN a
    ELSE IF a.e < b.e THEN a
    ELSE IF b.e < a.e THEN b
    ELSE LET g   == GCD(a.d, b.d)
             sum == Sgn(a) * a.n * (b.d \div g) + Sgn(b) * b.n * (a.d \div g)
         IN  IF sum = 0 THEN PosZero
             ELSE MkF(IF sum < 0 THEN 1 ELSE 0, Abs(sum), (a.d \div g) * b.d, a.e)

FSub(a, b) == FAdd(a, FNeg(b))

\* |a| < |b|
MagLt(a, b) ==
    IF b.n = 0 THEN FALSE
    ELSE IF a.n = 0 THEN TRUE
    ELSE IF a.e = b.e
         THEN LET g == GCD(a.d, b.d)
              IN  a.n * (b.d \div g) < b.n * (a.d \div g)
    ELSE a.e > b.e

FLt(a, b) ==
    /\ IsFinite(a) /\ IsFinite(b)
    /\ IF Sgn(a) # Sgn(b) THEN Sgn(a) < Sgn(b)
       ELSE IF Sgn(a) = 1 THEN MagLt(a, b)
       ELSE IF Sgn(a) = -1 THEN MagLt(b, a)
       ELSE FALSE

\* == on f64: the two zeros compare equal
FEq(a, b) ==
    /\ IsFinite(a) /\ IsFinite(b)
    /\ Sgn(a) = Sgn(b)
    /\ (a.n = 0 \/ (a.n = b.n /\ a.d = b.d /\ a.e = b.e))

FLe(a, b) == FLt(a, b) \/ FEq(a, b)
FGt(a, b) == FLt(b, a)

One == Rat(1, 1)
MinusOne == Rat(-1, 1)
Half == Rat(1, 2)
Two == Rat(2, 1)
\* std::f64::EPSILON = 2^-52
EPSILON == MkF(0, 1, 1, 52)

(***************************************************************************)
(* Complex<f64> of the num crate                                            *)
(***************************************************************************)
Cx(re, im) == [re |-> re, im |-> im]

\* -z
CNeg(z) == Cx(FNeg(z.re), FNeg(z.im))
\* conj(z)
Conj(z) == Cx(z.re, FNeg(z.im))
\* r - z for a real r: (r - re, 0 - im)
RSubC(r, z) == Cx(FSub(r, z.re), FSub(PosZero, z.im))
\* z.norm_sqr()
NormSqr(z) == FAdd(FMul(z.re, z.re), FMul(z.im, z.im))
\* r / z for a real r: (r*re/|z|^2, -r*im/|z|^2)
RDivC(r, z) ==
    LET n == NormSqr(z)
    IN  Cx(FDiv(FMul(r, z.re), n), FDiv(FMul(FNeg(r), z.im), n))

(***************************************************************************)
(* Angles.  [k, ty, tx] is k*pi + atan(ty/tx), the arctangent in            *)
(* (-pi/2, pi/2]: tx > 0 and gcd(ty, tx) = 1, or tx = 0 and ty = 1.  The    *)
(* sign of a zero angle is not kept: no comparison in the code sees it.     *)
(* The two operands of atan2 have the same binary scale e.                  *)
(***************************************************************************)
Ang(k, ty, tx) == [k |-> k, ty |-> ty, tx |-> tx]
AngZero == Ang(0, 0, 1)
AngPi == Ang(1, 0, 1)
AngMinusPi == Ang(-1, 0, 1)

\* atan(y/x) + pi for every x < 0, whatever the sign of y
Atan2_NoQuadrant(y, x) ==
    LET c == GCD(y.d, x.d)
        Y == Sgn(y) * y.n * (x.d \div c)
        X == Sgn(x) * x.n * (y.d \div c)
        g == GCD(Abs(Y), Abs(X))
    IN  IF Y = 0
        THEN IF X > 0 \/ (X = 0 /\ x.s = 0) THEN AngZero ELSE AngPi
        ELSE IF X = 0 THEN (IF Y > 0 THEN Ang(0, 1, 0) ELSE Ang(-1, 1, 0))
        ELSE IF X > 0 THEN Ang(0, Y \div g, X \div g)
        ELSE Ang(1, (-Y) \div g, (-X) \div g)

\* atan2(y, x) of IEEE-754, signed zeros included
Atan2(y, x) ==
    LET c == GCD(y.d, x.d)
        Y == Sgn(y) * y.n * (x.d \div c)
        X == Sgn(x) * x.n * (y.d \div c)
        g == GCD(Abs(Y), Abs(X))
    IN  IF Y = 0
        THEN IF X > 0 \/ (X = 0 /\ x.s = 0) THEN AngZero
             ELSE IF y.s = 0 THEN AngPi ELSE AngMinusPi
        ELSE IF X = 0 THEN (IF Y > 0 THEN Ang(0, 1, 0) ELSE Ang(-1, 1, 0))
        ELSE IF X > 0 THEN Ang(0, Y \div g, X \div g)
        ELSE IF Y > 0 THEN Ang(1, (-Y) \div g, (-X) \div g)
        ELSE Ang(-1, (-Y) \div g, (-X) \div g)

\* z.arg()
Arg(z) == Atan2(z.im, z.re)

\* -a
AngNeg(a) == IF a.tx = 0 THEN Ang(-a.k - 1, 1, 0) ELSE Ang(-a.k, -a.ty, a.tx)
\* a + j*pi
AngAddPi(a, j) == Ang(a.k + j, a.ty, a.tx)
\* a > 0.0
AngGtZero(a) == a.k > 0 \/ (a.k = 0 /\ a.ty > 0)
\* a in (-pi, pi]
AngPrincipal(a) ==
    \/ a.k = 0
    \/ a.k = -1 /\ a.ty > 0
    \/ a.k = 1 /\ a.ty <= 0 /\ a.tx > 0


(***************************************************************************)
(* Fixed-point evaluation (scale FixOne) of ln and atan, used where the     *)
(* code compares a logarithm or an argument with a threshold.               *)
(***************************************************************************)
FixOne == 2^13
PiFix == (31416 * FixOne) \div 10000
Ln2Fix == (69315 * FixOne) \div 100000
AtanHalfFix == (46365 * FixOne) \div 100000

\* n/d scaled by a power of two into [3/4, 3/2): <<n, d, k>> with
\* the original n/d = (n/d) * 2^k
RECURSIVE LnReduce(_, _, _)
LnReduce(n, d, k) ==
    IF 2 * n >= 3 * d THEN LnReduce(n, 2 * d, k + 1)
    ELSE IF 4 * n < 3 * d THEN LnReduce(2 * n, d, k - 1)
    ELSE <<n, d, k>>

\* ln(a) for a > 0: 2*atanh((m-1)/(m+1)) + k*ln 2
LnFix(a) ==
    LET r  == LnReduce(a.n, a.d, 0)
        U  == (FixOne * (r[1] - r[2])) \div (r[1] + r[2])
        U2 == (U * U) \div FixOne
        U3 == (U * U2) \div FixOne
        U5 == (U3 * U2) \div FixOne
        U7 == (U5 * U2) \div FixOne
    IN  2 * (U + U3 \div 3 + U5 \div 5 + U7 \div 7) + (r[3] - a.e) * Ln2Fix

\* atan(p/q) for 0 <= p/q <= 1/2, by its Taylor series
AtanSeries(p, q) ==
    LET R   == (FixOne * p) \div q
        R2  == (R * R) \div FixOne
        R3  == (R * R2) \div FixOne
        R5  == (R3 * R2) \div FixOne
        R7  == (R5 * R2) \div FixOne
        R9  == (R7 * R2) \div FixOne
        R11 == (R9 * R2) \div FixOne
    IN  R - R3 \div 3 + R5 \div 5 - R7 \div 7 + R9 \div 9 - R11 \div 11

\* atan(p/q) for 0 <= p/q <= 1
AtanUnit(p, q) ==
    IF 2 * p > q THEN AtanHalfFix + AtanSeries(2 * p - q, 2 * q + p)
    ELSE AtanSeries(p, q)

\* atan(ty/tx) in (-pi/2, pi/2]
AtanFix(ty, tx) ==
    IF tx = 0 THEN PiFix \div 2
    ELSE LET m == Abs(ty)
             v == IF m > tx THEN PiFix \div 2 - AtanUnit(tx, m) ELSE AtanUnit(m, tx)
         IN  IF ty < 0 THEN -v ELSE v

AngFix(a) == a.k * PiFix + AtanFix(a.ty, a.tx)

(***************************************************************************)
(* li2.rs: the real dilogarithm                                             *)
(***************************************************************************)
\* x.ln() of a real x, kept symbolic
Ln(x) == [fn |-> "ln", of |-> x]

MinusTwo == Rat(-2, 1)
MinusHalf == Rat(-1, 2)

\* The six regions of t = -x.  Each gives the transformed variable y, the
\* sign s, the correction a (its expression and the logarithms it is built
\* from), and, in program order, every argument handed to ln and every
\* divisor.
Region1(t) ==
    [region |-> 1,
     y |-> FDiv(MinusOne, FAdd(One, t)), s |-> 1,
     a |-> [expr |-> "-pi3 + 0.5*(b1*b1 - b2*b2)",
            logs |-> <<Ln(FNeg(t)), Ln(FAdd(One, FDiv(One, t)))>>],
     lnArgs |-> <<FNeg(t), FAdd(One, FDiv(One, t))>>,
     divs |-> <<t, FAdd(One, t)>>]

Region2(t) ==
    [region |-> 2,
     y |-> FSub(MinusOne, t), s |-> -1,
     a |-> [expr |-> "-pi6 + a*(a + ln(1 + 1/t))",
            logs |-> <<Ln(FNeg(t)), Ln(FAdd(One, FDiv(One, t)))>>],
     lnArgs |-> <<FNeg(t), FAdd(One, FDiv(One, t))>>,
     divs |-> <<t>>]

\* the slip (t).ln() for (-t).ln()
Region3_SignSlip(t) ==
    [region |-> 3,
     y |-> FDiv(FNeg(FAdd(One, t)), t), s |-> 1,
     a |-> [expr |-> "-pi6 + a*(-0.5*a + ln(1 + t))",
            logs |-> <<Ln(t), Ln(FAdd(One, t))>>],
     lnArgs |-> <<t, FAdd(One, t)>>,
     divs |-> <<t>>]

Region3(t) ==
    [region |-> 3,
     y |-> FDiv(FNeg(FAdd(One, t)), t), s |-> 1,
     a |-> [expr |-> "-pi6 + a*(-0.5*a + ln(1 + t))",
            logs |-> <<Ln(FNeg(t)), Ln(FAdd(One, t))>>],
     lnArgs |-> <<FNeg(t), FAdd(One, t)>>,
     divs |-> <<t>>]

Region4(t) ==
    [region |-> 4,
     y |-> FDiv(FNeg(t), FAdd(One, t)), s |-> -1,
     a |-> [expr |-> "0.5*b1*b1", logs |-> <<Ln(FAdd(One, t))>>],
     lnArgs |-> <<FAdd(One, t)>>,
     divs |-> <<FAdd(One, t)>>]

Region5(t) ==
    [region |-> 5,
     y |-> t, s |-> 1,
     a |-> [expr |-> "0", logs |-> <<>>],
     lnArgs |-> <<>>,
     divs |-> <<>>]

Region6(t) ==
    [region |-> 6,
     y |-> FDiv(One, t), s |-> -1,
     a |-> [expr |-> "pi6 + 0.5*b1*b1", logs |-> <<Ln(t)>>],
     lnArgs |-> <<t>>,
     divs |-> <<t>>]

\* the first boundary tested with < for <=
Reduce_StrictFirst(t) ==
    IF FLt(t, MinusTwo) THEN Region1(t)
    ELSE IF FLt(t, MinusOne) THEN Region2(t)
    ELSE IF FLe(t, MinusHalf) THEN Region3(t)
    ELSE IF FLt(t, PosZero) THEN Region4(t)
    ELSE IF FLe(t, One) THEN Region5(t)
    ELSE Region6(t)

\* let (y, s, a) = if t <= -2.0 {..} else if t < -1.0 {..} ...
Reduce(t) ==
    IF FLe(t, MinusTwo) THEN Region1(t)
    ELSE IF FLt(t, MinusOne) THEN Region2(t)
    ELSE IF FLe(t, MinusHalf) THEN Region3(t)
    ELSE IF FLt(t, PosZero) THEN Region4(t)
    ELSE IF FLe(t, One) THEN Region5(t)
    ELSE Region6(t)

\* a result that is not a Chebyshev evaluation carries these
NoReduce ==
    [region |-> 0, y |-> PosZero, s |-> 1,
     a |-> [expr |-> "0", logs |-> <<>>], lnArgs |-> <<>>, divs |-> <<>>]

\* one of the two exact values: no region, no logarithm, no series
Li2Exact(path, form) ==
    [path |-> path, red |-> NoReduce, h |-> PosZero, alfa |-> PosZero,
     ret |-> [form |-> form, s |-> 1, h |-> PosZero, a |-> NoReduce.a]]

\* reduction and the Chebyshev series in h = 2y - 1 (alfa = 2h), returned
\* as the symbolic value -(s*(b0 - h*b2) + a)
Li2Series(x) ==
    LET t   == FNeg(x)
        red == Reduce(t)
        h   == FSub(FAdd(red.y, red.y), One)
    IN  [path |-> "series", red |-> red, h |-> h, alfa |-> FAdd(h, h),
         ret |-> [form |-> "-(s*(b0 - h*b2) + a)",
                  s |-> red.s, h |-> h, a |-> red.a]]

\* the test x == 1.0 left out
Li2_f64_NoOne(x) ==
    IF FEq(x, MinusOne) THEN Li2Exact("minus_one", "-pi2/12")
    ELSE Li2Series(x)

\* f64::li2
Li2_f64(x) ==
    IF FEq(x, One) THEN Li2Exact("one", "pi6")
    ELSE IF FEq(x, MinusOne) THEN Li2Exact("minus_one", "-pi2/12")
    ELSE Li2Series(x)

(***************************************************************************)
(* li2.rs: the complex dilogarithm                                          *)
(***************************************************************************)
\* Complex values built from logarithms are kept as monomials c * l1 * l2..:
\* a real coefficient and the complex logarithms multiplied, each logarithm
\* (ln |w|, arg w) identified by |w|^2 and the angle.
CLog(w) == [nsq |-> NormSqr(w), arg |-> Arg(w)]
\* w.ln()
CLnT(w) == [c |-> One, logs |-> <<CLog(w)>>]
\* Complex::new(0., 0.)
TZero == [c |-> PosZero, logs |-> <<>>]
\* k * m for a real k
TScale(k, m) == [c |-> FMul(k, m.c), logs |-> m.logs]
\* -m
TNeg(m) == [c |-> FNeg(m.c), logs |-> m.logs]
\* m1 * m2
TMul(m1, m2) == [c |-> FMul(m1.c, m2.c), logs |-> m1.logs \o m2.logs]
sqr(m) == TMul(m, m)

\* the negation of self forgotten in cy: -0.5*sqr(self.ln())
Inversion_NoNeg(z, b) ==
    [branch |-> b,
     cy |-> TScale(MinusHalf, sqr(CLnT(z))),
     cz |-> TNeg(CLnT(RSubC(One, RDivC(One, z)))),
     jsgn |-> -1, ipi12 |-> -2]

\* (-0.5 * sqr((-self).ln()), -(1. - 1. / self).ln(), -1., -2.)
Inversion(z, b) ==
    [branch |-> b,
     cy |-> TScale(MinusHalf, sqr(CLnT(CNeg(z)))),
     cz |-> TNeg(CLnT(RSubC(One, RDivC(One, z)))),
     jsgn |-> -1, ipi12 |-> -2]

\* (Complex::new(0.,0.), -(1. - self).ln(), 1., 0.)
Series(z, b) ==
    [branch |-> b,
     cy |-> TZero,
     cz |-> TNeg(CLnT(RSubC(One, z))),
     jsgn |-> 1, ipi12 |-> 0]

\* let l = -(self).ln(); (l * (1. - self).ln(), l, -1., 2.)
Reflection(z, b) ==
    LET l == TNeg(CLnT(z))
    IN  [branch |-> b,
         cy |-> TMul(l, CLnT(RSubC(One, z))),
         cz |-> l,
         jsgn |-> -1, ipi12 |-> 2]

\* the four transform branches: (cy, cz, jsgn, ipi12)
Transform(z) ==
    LET rz == z.re
        nz == NormSqr(z)
    IN  IF FLe(rz, Half) THEN
            IF FGt(nz, One) THEN Inversion(z, 1) ELSE Series(z, 2)
        ELSE
            IF FLe(nz, FMul(Two, rz)) THEN Reflection(z, 3) ELSE Inversion(z, 4)

NoTransform == [branch |-> 0, cy |-> TZero, cz |-> TZero, jsgn |-> 1, ipi12 |-> 0]

\* the real value 0.0 and the value -pi*ln(rz), as imaginary parts
ImZero == [expr |-> "0.0", logs |-> <<>>]
ImCut(rz) == [expr |-> "-pi*ln(rz)", logs |-> <<Ln(rz)>>]

\* iz == 0: Complex::new(rz.li2(), 0.0) or Complex::new(rz.li2(), -pi*rz.ln())
Li2RealAxis(z) ==
    IF FLe(z.re, One) THEN
        [path |-> "real_le1", tr |-> NoTransform,
         ret |-> [re |-> Li2_f64(z.re).ret, im |-> ImZero]]
    ELSE
        [path |-> "real_gt1", tr |-> NoTransform,
         ret |-> [re |-> Li2_f64(z.re).ret, im |-> ImCut(z.re)]]

\* nz < EPSILON: return *self
Li2Self(z) == [path |-> "self", tr |-> NoTransform, ret |-> z]

\* jsgn * sum + cy + ipi12 * pi * pi / 12., sum the series in cz
Li2Transformed(z) ==
    LET tr == Transform(z)
    IN  [path |-> "transform", tr |-> tr,
         ret |-> [form |-> "jsgn*sum(cz) + cy + ipi12*pi*pi/12",
                  jsgn |-> tr.jsgn, cz |-> tr.cz, cy |-> tr.cy,
                  ipi12 |-> tr.ipi12]]

\* the |z|^2 < EPSILON shortcut tested before iz == 0
Li2_Complex_EpsFirst(z) ==
    IF FLt(NormSqr(z), EPSILON) THEN Li2Self(z)
    ELSE IF FEq(z.im, PosZero) THEN Li2RealAxis(z)
    ELSE Li2Transformed(z)

\* Complex<f64>::li2
Li2_Complex(z) ==
    IF FEq(z.im, PosZero) THEN Li2RealAxis(z)
    ELSE IF FLt(NormSqr(z), EPSILON) THEN Li2Self(z)
    ELSE Li2Transformed(z)

(***************************************************************************)
(* li4.rs: cln and the complex tetralogarithm                               *)
(***************************************************************************)
\* 0.5 * x.ln() of a real x, kept symbolic
HalfLn(x) == [fn |-> "0.5*ln", of |-> x]

\* only the real component made +0.0
Canonical_ReOnly(w) ==
    Cx(IF FEq(w.re, PosZero) THEN PosZero ELSE w.re, w.im)

\* the local z of cln: self with its exactly-zero components made +0.0
Canonical(w) ==
    Cx(IF FEq(w.re, PosZero) THEN PosZero ELSE w.re,
       IF FEq(w.im, PosZero) THEN PosZero ELSE w.im)

\* CLn::cln: (0.5*ln(|z|^2), arg(z)) of the canonical z
cln(w) ==
    LET z == Canonical(w)
    IN  [re |-> HalfLn(NormSqr(z)), im |-> Arg(z)]

\* lnz*lnz + pz*pz < 1., on the values of lnz = 0.5*ln(nz) and pz
SmallLog(nz, pz) ==
    LET lnz == LnFix(nz) \div 2
        p   == AngFix(pz)
    IN  lnz * lnz + p * p < FixOne * FixOne

\* the test pz >= 0.0 for pz > 0.0
LmzArg_Ge(pz) ==
    IF AngGtZero(pz) \/ pz = AngZero THEN AngAddPi(pz, -1) ELSE AngAddPi(pz, 1)

\* let arg = if pz > 0.0 { pz - pi } else { pz + pi }
LmzArg(pz) ==
    IF AngGtZero(pz) THEN AngAddPi(pz, -1) ELSE AngAddPi(pz, 1)

\* what a special value of li4 carries in place of the general quantities
NoLog == HalfLn(One)
NoCln == [re |-> NoLog, im |-> AngZero]

\* return Complex::new(c, 0.) before any logarithm or series
Li4Const(name) ==
    [path |-> name, lnArgs |-> <<>>, clnArgs |-> <<>>, series |-> "none",
     pz |-> AngZero, lmz |-> NoCln, u |-> NoCln, sgn |-> 1,
     ret |-> [form |-> name]]

\* li4 past its special cases: nz, pz, lnz and the three regimes
Li4General(z) ==
    LET nz  == NormSqr(z)
        pz  == Arg(z)
        lnz == HalfLn(nz)
    IN  IF SmallLog(nz, pz) THEN
            \* u = (lnz, pz); c3 = (11/6 - cln(-u))/6
            [path |-> "small", lnArgs |-> <<nz>>, clnArgs |-> <<>>,
             series |-> "cs", pz |-> pz, lmz |-> NoCln,
             u |-> [re |-> lnz, im |-> pz], sgn |-> 1,
             ret |-> [form |-> "z4 + u2*(c2 + u2*c4) + u*(c1 + u2*(c3 + ..))"]]
        ELSE IF FLe(nz, One) THEN
            \* u = -cln(1 - z) (kept without its sign), rest = 0
            [path |-> "unit", lnArgs |-> <<nz>>,
             clnArgs |-> <<RSubC(One, z)>>,
             series |-> "bf", pz |-> pz, lmz |-> NoCln,
             u |-> cln(RSubC(One, z)), sgn |-> 1,
             ret |-> [form |-> "rest + sgn*(u*(bf[0] + ..))"]]
        ELSE
            \* u = -cln(1 - 1/z), rest built from lmz = (lnz, arg)
            [path |-> "inv", lnArgs |-> <<nz>>,
             clnArgs |-> <<RSubC(One, RDivC(One, z))>>,
             series |-> "bf", pz |-> pz,
             lmz |-> [re |-> lnz, im |-> LmzArg(pz)],
             u |-> cln(RSubC(One, RDivC(One, z))), sgn |-> -1,
             ret |-> [form |-> "rest + sgn*(u*(bf[0] + ..))"]]

\* the guard self.im == 0.0 left out
Li4_Complex_NoImGuard(z) ==
    IF FEq(z.re, PosZero) THEN Li4Const("0")
    ELSE IF FEq(z.re, One) THEN Li4Const("z4")
    ELSE IF FEq(z.re, MinusOne) THEN Li4Const("-7/8*z4")
    ELSE Li4General(z)

\* Complex<f64>::li4
Li4_Complex(z) ==
    IF FEq(z.im, PosZero) /\ FEq(z.re, PosZero) THEN Li4Const("0")
    ELSE IF FEq(z.im, PosZero) /\ FEq(z.re, One) THEN Li4Const("z4")
    ELSE IF FEq(z.im, PosZero) /\ FEq(z.re, MinusOne) THEN Li4Const("-7/8*z4")
    ELSE Li4General(z)

(***************************************************************************)
(* The calls.  One action per function: it draws the argument and applies   *)
(* the function; Return discards the result.                                *)
(***************************************************************************)
VARIABLES
    pc,      \* "idle", or the function whose result res holds
    xin,     \* the f64 argument of the call
    zin,     \* the Complex<f64> argument of the call
    res,     \* what the function computed
    \* the Clenshaw loop of f64::li2, on integers
    cpc,     \* "idle", "loop", "done"
    coeffs,  \* the coefficient table
    h2,      \* 2*h, so that alfa = h + h = h2
    cs,      \* the sign s of the reduction
    ca,      \* the correction a of the reduction
    idx,     \* coeffs[1..idx] are still to be consumed
    used,    \* the indices consumed so far, in order
    b0,
    b1,
    b2,
    ret2     \* twice the value returned

vars == <<pc, xin, zin, res, cpc, coeffs, h2, cs, ca, idx, used, b0, b1, b2, ret2>>
callVars == <<pc, xin, zin, res>>
loopVars == <<cpc, coeffs, h2, cs, ca, idx, used, b0, b1, b2, ret2>>

\* the finite f64 inputs
Grid == {MkF(s, n, GridDen, 0) : s \in {0, 1}, n \in 0 .. MaxMag}
Tiny == {MkF(s, 1, 1, TinyExp) : s \in {0, 1}}
Zeros == {PosZero, NegZero}
RealInputs == Grid \cup Tiny
\* complex inputs: both components on the grid, or both tiny or zero (the
\* arguments of the |z|^2 < EPSILON shortcut)
GridComplex == {Cx(re, im) : re \in Grid, im \in Grid}
TinyComplex == {Cx(re, im) : re \in Tiny \cup Zeros, im \in Tiny \cup Zeros}

NoRes == [path |-> "none"]

CallIdle ==
    /\ pc = "idle"
    /\ xin = PosZero
    /\ zin = Cx(PosZero, PosZero)
    /\ res = NoRes

LoopIdle ==
    /\ cpc = "idle"
    /\ coeffs = <<>>
    /\ h2 = 0 /\ cs = 1 /\ ca = 0
    /\ idx = 0
    /\ used = <<>>
    /\ b0 = 0 /\ b1 = 0 /\ b2 = 0
    /\ ret2 = 0

Init == CallIdle /\ LoopIdle

Call_li2_f64 ==
    /\ pc = "idle"
    /\ \E x \in RealInputs :
        /\ xin' = x
        /\ res' = Li2_f64(x)
    /\ pc' = "li2_f64"
    /\ UNCHANGED <<zin, loopVars>>

Call_li2_Complex ==
    /\ pc = "idle"
    /\ \E z \in GridComplex \cup TinyComplex :
        /\ zin' = z
        /\ res' = Li2_Complex(z)
    /\ pc' = "li2_Complex"
    /\ UNCHANGED <<xin, loopVars>>

Call_li4 ==
    /\ pc = "idle"
    /\ \E z \in GridComplex :
        /\ zin' = z
        /\ res' = Li4_Complex(z)
    /\ pc' = "li4"
    /\ UNCHANGED <<xin, loopVars>>

\* res keeps the local z of cln beside the value returned
Call_cln ==
    /\ pc = "idle"
    /\ \E z \in GridComplex :
        /\ zin' = z
        /\ res' = [z |-> Canonical(z), ret |-> cln(z)]
    /\ pc' = "cln"
    /\ UNCHANGED <<xin, loopVars>>

Return ==
    /\ pc # "idle"
    /\ pc' = "idle"
    /\ xin' = PosZero
    /\ zin' = Cx(PosZero, PosZero)
    /\ res' = NoRes
    /\ UNCHANGED loopVars

Next ==
    \/ Call_li2_f64
    \/ Call_li2_Complex
    \/ Call_li4
    \/ Call_cln
    \/ Return

Spec == Init /\ [][Next]_vars

(***************************************************************************)
(* The Clenshaw loop of f64::li2 (li2.rs:67-77), step by step, on integer   *)
(* coefficient tables.  h is a multiple of 1/2, kept as h2 = 2*h, and the   *)
(* quantities that hold a multiple of 1/2 are kept doubled.                 *)
(***************************************************************************)
\* the length of coeffs
NCoeffs == 20
\* h2 ranges over -MaxH2..MaxH2
MaxH2 == 2

\* tables with at most two entries that are not zero
Tables ==
    {[k \in 1 .. NCoeffs |-> IF k = i THEN v ELSE IF k = j THEN w ELSE 0] :
        i \in 1 .. NCoeffs, j \in 1 .. NCoeffs,
        v \in -MaxCoef .. MaxCoef, w \in -MaxCoef .. MaxCoef}

\* the state before the loop: b0 = b1 = b2 = 0.0, every coefficient ahead
LoopInit ==
    /\ CallIdle
    /\ cpc = "loop"
    /\ coeffs \in Tables
    /\ h2 \in -MaxH2 .. MaxH2
    /\ cs \in {-1, 1}
    /\ ca \in {0, 1}
    /\ idx = NCoeffs
    /\ used = <<>>
    /\ b0 = 0 /\ b1 = 0 /\ b2 = 0
    /\ ret2 = 0

\* the assignments in the order b1 = b0; b2 = b1
ClenshawStep_Swapped ==
    /\ cpc = "loop"
    /\ idx > 0
    /\ b0' = coeffs[idx] + h2 * b1 - b2
    /\ b1' = b0'
    /\ b2' = b1'
    /\ idx' = idx - 1
    /\ used' = Append(used, idx)
    /\ UNCHANGED <<callVars, cpc, coeffs, h2, cs, ca, ret2>>

\* for c in coeffs.iter().rev() { b0 = c + alfa*b1 - b2; b2 = b1; b1 = b0; }
ClenshawStep ==
    /\ cpc = "loop"
    /\ idx > 0
    /\ b0' = coeffs[idx] + h2 * b1 - b2
    /\ b2' = b1
    /\ b1' = b0'
    /\ idx' = idx - 1
    /\ used' = Append(used, idx)
    /\ UNCHANGED <<callVars, cpc, coeffs, h2, cs, ca, ret2>>

\* -(s*(b0 - h*b2) + a), doubled
ClenshawReturn ==
    /\ cpc = "loop"
    /\ idx = 0
    /\ ret2' = -(cs * (2 * b0 - h2 * b2) + 2 * ca)
    /\ cpc' = "done"
    /\ UNCHANGED <<callVars, coeffs, h2, cs, ca, idx, used, b0, b1, b2>>

LoopNext ==
    \/ ClenshawStep
    \/ ClenshawReturn

SpecClenshaw == LoopInit /\ [][LoopNext]_vars

(***************************************************************************)
(* The claims                                                               *)
(***************************************************************************)
\* C1: for every z whose imaginary part compares equal to zero, the complex
\* li2 returns (li2_real(Re z), 0) when Re z <= 1 and
\* (li2_real(Re z), -pi*ln(Re z)) when Re z > 1, and neither the
\* |z|^2 < EPSILON shortcut nor a transform branch is taken.
C1_RealAxisDelegates ==
    (pc = "li2_Complex" /\ FEq(zin.im, PosZero)) =>
        /\ res.path \in {"real_le1", "real_gt1"}
        /\ res.tr.branch = 0
        /\ res.ret.re = Li2_f64(zin.re).ret
        /\ FLe(zin.re, One) => (res.path = "real_le1" /\ res.ret.im = ImZero)
        /\ FGt(zin.re, One) => (res.path = "real_gt1" /\ res.ret.im = ImCut(zin.re))

\* a real argument that also satisfies |z|^2 < EPSILON, with Im z = -0.0
C1_Witness ==
    /\ pc = "li2_Complex"
    /\ zin.im = NegZero
    /\ zin.re \in Tiny
    /\ FLt(NormSqr(zin), EPSILON)
    /\ res.path = "real_le1"

\* C2: li4 returns the constants 0, zeta(4), -7/8*zeta(4) for z = 0, 1, -1
\* (imaginary part zero of either sign) without evaluating a logarithm or a
\* series; for every other z no special case fires and the general regime
\* selection is used.
C2_Li4SpecialValues ==
    pc = "li4" =>
        LET real == FEq(zin.im, PosZero)
            want == IF real /\ FEq(zin.re, PosZero) THEN "0"
                    ELSE IF real /\ FEq(zin.re, One) THEN "z4"
                    ELSE IF real /\ FEq(zin.re, MinusOne) THEN "-7/8*z4"
                    ELSE "general"
        IN  IF want # "general"
            THEN /\ res.path = want
                 /\ res.ret.form = want
                 /\ res.lnArgs = <<>> /\ res.clnArgs = <<>>
                 /\ res.series = "none"
            ELSE /\ res.path \in {"small", "unit", "inv"}
                 /\ res.lnArgs = <<NormSqr(zin)>>
                 /\ res.series \in {"cs", "bf"}

\* li4 of -1 - 0.0i
C2_Witness ==
    /\ pc = "li4"
    /\ zin = Cx(MinusOne, NegZero)
    /\ res.path = "-7/8*z4"

\* C3: the real li2 returns pi^2/6 for x == 1.0 and -pi^2/12 for x == -1.0,
\* before the region classification: no region is chosen and no logarithm
\* is taken.
C3_Li2ExactValues ==
    pc = "li2_f64" =>
        /\ FEq(xin, One) =>
              /\ res.path = "one" /\ res.ret.form = "pi6"
              /\ res.red.region = 0 /\ res.red.lnArgs = <<>>
        /\ FEq(xin, MinusOne) =>
              /\ res.path = "minus_one" /\ res.ret.form = "-pi2/12"
              /\ res.red.region = 0 /\ res.red.lnArgs = <<>>
        /\ (~FEq(xin, One) /\ ~FEq(xin, MinusOne)) => res.path = "series"

C3_Witness ==
    /\ pc = "li2_f64"
    /\ xin = One
    /\ res.path = "one"

\* C4: for every finite x, on the path the real li2 takes, every logarithm
\* is applied to a strictly positive argument and every division has a
\* divisor that is not zero; y and h are finite.
C4_Li2Total ==
    pc = "li2_f64" =>
        /\ \A i \in DOMAIN res.red.lnArgs : FGt(res.red.lnArgs[i], PosZero)
        /\ \A i \in DOMAIN res.red.divs :
              IsFinite(res.red.divs[i]) /\ ~IsZero(res.red.divs[i])
        /\ IsFinite(res.red.y) /\ IsFinite(res.h) /\ IsFinite(res.alfa)

\* x = 2: t = -2, the logarithms of 2 and of 1 + 1/t = 1/2, the divisors
\* t and 1 + t = -1
C4_Witness ==
    /\ pc = "li2_f64"
    /\ xin = Two
    /\ res.red.region = 1
    /\ Len(res.red.lnArgs) = 2 /\ Len(res.red.divs) = 2

\* conj(m) of a monomial: the coefficient is real, and
\* conj(ln|w| + i*arg w) = ln|w| - i*arg w
ConjT(m) ==
    [c |-> m.c,
     logs |-> [i \in DOMAIN m.logs |->
                  [nsq |-> m.logs[i].nsq, arg |-> AngNeg(m.logs[i].arg)]]]

\* -v of an imaginary part of the real-axis case; -0.0 == 0.0
ImNeg(v) == IF v = ImZero THEN ImZero ELSE [expr |-> "pi*ln(rz)", logs |-> v.logs]

\* C5: for z not on the branch cut, z and conj(z) take the same path through
\* the complex li2, with the same jsgn and ipi12, and cy, cz (and the value
\* of a special case) for conj(z) are the conjugates of those for z.
C5_ConjugationSymmetry ==
    (pc = "li2_Complex" /\ ~(FEq(zin.im, PosZero) /\ FGt(zin.re, One))) =>
        LET rc == Li2_Complex(Conj(zin))
        IN  /\ rc.path = res.path
            /\ rc.tr.branch = res.tr.branch
            /\ rc.tr.jsgn = res.tr.jsgn
            /\ rc.tr.ipi12 = res.tr.ipi12
            /\ rc.tr.cy = ConjT(res.tr.cy)
            /\ rc.tr.cz = ConjT(res.tr.cz)
            /\ res.path = "self" => rc.ret = Conj(res.ret)
            /\ res.path \in {"real_le1", "real_gt1"} =>
                  /\ rc.ret.re = res.ret.re
                  /\ rc.ret.im = ImNeg(res.ret.im)

\* z in the lower half plane, in the inversion branch Re z <= 0.5, |z| > 1
C5_Witness ==
    /\ pc = "li2_Complex"
    /\ res.path = "transform"
    /\ res.tr.branch = 1
    /\ FLt(zin.im, PosZero) /\ FGt(zin.re, PosZero)

\* the six regions as the claim states them
InRegion(i, t) ==
    CASE i = 1 -> FLe(t, MinusTwo)
      [] i = 2 -> FLt(MinusTwo, t) /\ FLt(t, MinusOne)
      [] i = 3 -> FLe(MinusOne, t) /\ FLe(t, MinusHalf)
      [] i = 4 -> FLt(MinusHalf, t) /\ FLt(t, PosZero)
      [] i = 5 -> FLe(PosZero, t) /\ FLe(t, One)
      [] i = 6 -> FGt(t, One)

\* C6: for x other than 1 and -1, t = -x falls into exactly one of the six
\* regions, the one the code chooses; the y of that region is in (-1, 1],
\* h = 2y - 1 is in [-1, 1], and s is -1 or 1.
C6_RegionsReduce ==
    (pc = "li2_f64" /\ res.path = "series") =>
        LET t == FNeg(xin)
        IN  /\ {i \in 1 .. 6 : InRegion(i, t)} = {res.red.region}
            /\ FLt(MinusOne, res.red.y) /\ FLe(res.red.y, One)
            /\ FLe(MinusOne, res.h) /\ FLe(res.h, One)
            /\ res.red.s \in {-1, 1}

\* x = 1/2: t = -0.5, the closed end of region 3, where y = 1 and h = 1
C6_Witness ==
    /\ pc = "li2_f64"
    /\ xin = Half
    /\ res.red.region = 3
    /\ res.red.y = One /\ res.h = One

\* the preconditions of C7: Im z # 0 and |z|^2 >= EPSILON
C7_Pre ==
    /\ pc = "li2_Complex"
    /\ ~FEq(zin.im, PosZero)
    /\ ~FLt(NormSqr(zin), EPSILON)

\* the branch the conditions of C7 select
C7_Branch(z) ==
    LET rz == z.re
        nz == NormSqr(z)
    IN  CASE FLe(rz, Half) /\ FGt(nz, One) -> 1
          [] FLe(rz, Half) /\ FLe(nz, One) -> 2
          [] FGt(rz, Half) /\ FLe(nz, FMul(Two, rz)) -> 3
          [] FGt(rz, Half) /\ FGt(nz, FMul(Two, rz)) -> 4

\* the part of C7 that does not concern the forms of cy and cz
C7_Common ==
    /\ res.path = "transform"
    /\ Cardinality({b \in 1 .. 4 : C7_Branch(zin) = b}) = 1
    /\ res.tr.branch = C7_Branch(zin)
    /\ res.tr.jsgn \in {-1, 1}
    /\ res.tr.ipi12 \in {-2, 0, 2}
    /\ res.ret = [form |-> "jsgn*sum(cz) + cy + ipi12*pi*pi/12",
                  jsgn |-> res.tr.jsgn, cz |-> res.tr.cz, cy |-> res.tr.cy,
                  ipi12 |-> res.tr.ipi12]

C7_NegHalfSqrLnNeg(z) == TScale(MinusHalf, sqr(CLnT(CNeg(z))))
C7_NegLnOneMinusInv(z) == TNeg(CLnT(RSubC(One, RDivC(One, z))))
C7_NegLnOneMinus(z) == TNeg(CLnT(RSubC(One, z)))

\* C7 as stated: in every branch cy is zero or -1/2*ln(-z)^2 and cz is
\* -ln(1-1/z) or -ln(1-z), or one of these two times a further logarithm.
C7_AsStated ==
    C7_Pre =>
        /\ C7_Common
        /\ res.tr.cy \in {TZero, C7_NegHalfSqrLnNeg(zin)}
        /\ \E base \in {C7_NegLnOneMinusInv(zin), C7_NegLnOneMinus(zin)} :
              /\ res.tr.cz.c = base.c
              /\ \E i \in DOMAIN res.tr.cz.logs : res.tr.cz.logs[i] = base.logs[1]
              /\ Len(res.tr.cz.logs) \in {1, 2}

\* C7, amended: exactly one of the four branches is chosen by the stated
\* conditions; cy is zero, -1/2*ln(-z)^2 or -ln(z)*ln(1-z), and cz is
\* -ln(1-1/z), -ln(1-z) or -ln(z); jsgn is -1 or 1, ipi12 is -2, 0 or 2,
\* and the result is jsgn*series(cz) + cy + ipi12*pi^2/12.
C7_TransformBranches ==
    C7_Pre =>
        /\ C7_Common
        /\ res.tr.cy \in {TZero, C7_NegHalfSqrLnNeg(zin),
                          TMul(TNeg(CLnT(zin)), CLnT(RSubC(One, zin)))}
        /\ res.tr.cz \in {C7_NegLnOneMinusInv(zin), C7_NegLnOneMinus(zin),
                          TNeg(CLnT(zin))}

\* the branch Re z > 0.5, |z|^2 <= 2*Re z, where cz = -ln(z)
C7_Witness ==
    /\ C7_Pre
    /\ res.tr.branch = 3
    /\ res.tr.cz = TNeg(CLnT(zin))

\* C8: in the inversion branch of li4, lmz = (ln|z|, pz -+ pi) equals
\* cln(-z), also for z on the real axis with imaginary part +0.0 or -0.0,
\* and its imaginary part lies in (-pi, pi].
C8_LmzIsClnNeg ==
    (pc = "li4" /\ res.path = "inv") =>
        /\ res.lmz = cln(CNeg(zin))
        /\ AngPrincipal(res.lmz.im)

\* z on the positive real axis with Im z = -0.0 (pz = -0.0)
C8_Witness ==
    /\ pc = "li4" /\ res.path = "inv"
    /\ zin.im = NegZero /\ FGt(zin.re, One)
    /\ res.lmz.im = AngPi

\* the inputs that differ from z at most in the sign of a zero component
ZeroFlips(z) ==
    {Cx(re, im) :
        re \in IF IsZero(z.re) THEN Zeros ELSE {z.re},
        im \in IF IsZero(z.im) THEN Zeros ELSE {z.im}}

\* C9: cln replaces a component that is exactly zero by +0.0 and leaves the
\* others, then returns (0.5*ln(|z|^2), arg(z)); cln is the same for inputs
\* that differ only in the sign of a zero component; for Re z < 0 and
\* Im z = +-0.0 the imaginary part of cln(z) is +pi.
C9_ClnCanonical ==
    pc = "cln" =>
        /\ res.z.re = (IF IsZero(zin.re) THEN PosZero ELSE zin.re)
        /\ res.z.im = (IF IsZero(zin.im) THEN PosZero ELSE zin.im)
        /\ res.ret = [re |-> HalfLn(NormSqr(res.z)), im |-> Atan2(res.z.im, res.z.re)]
        /\ \A w \in ZeroFlips(zin) : cln(w) = res.ret
        /\ (FLt(zin.re, PosZero) /\ IsZero(zin.im)) => res.ret.im = AngPi

\* cln of a negative real number with Im z = -0.0
C9_Witness ==
    /\ pc = "cln"
    /\ zin.im = NegZero /\ FLt(zin.re, PosZero)
    /\ res.ret.im = AngPi

\* <<2*T_k(h), 2*T_(k-1)(h)>> for h = x/2, by the recurrence
\* T_(k+1) = 2h*T_k - T_(k-1)
RECURSIVE ChebPair(_, _)
ChebPair(k, x) ==
    IF k = 0 THEN <<2, x>>
    ELSE LET p == ChebPair(k - 1, x)
         IN  <<x * p[1] - p[2], p[1]>>

\* twice the sum of c[k+1]*T_k(h) over k = 0 .. n-1
RECURSIVE ChebSum2(_, _, _)
ChebSum2(c, x, n) ==
    IF n = 0 THEN 0
    ELSE ChebSum2(c, x, n - 1) + c[n] * ChebPair(n - 1, x)[1]

\* NCoeffs, NCoeffs - 1, .., 1
Descending == [i \in 1 .. NCoeffs |-> NCoeffs + 1 - i]

\* C10: the Clenshaw loop consumes the 20 coefficients once each, from the
\* highest index to the lowest; when it ends, b0 - h*b2 is the Chebyshev
\* sum of c_k*T_k(h), c_0 with full weight, and the value returned is
\* -(s*(b0 - h*b2) + a).
C10_ClenshawSum ==
    /\ cpc = "loop" => (\A i \in DOMAIN used : used[i] = NCoeffs + 1 - i)
    /\ cpc = "done" =>
          /\ used = Descending
          /\ 2 * b0 - h2 * b2 = ChebSum2(coeffs, h2, NCoeffs)
          /\ ret2 = -(cs * ChebSum2(coeffs, h2, NCoeffs) + 2 * ca)

\* h = 1/2, the first and the last coefficient not zero, s = -1, a = 1
C10_Witness ==
    /\ cpc = "done"
    /\ h2 = 1 /\ cs = -1 /\ ca = 1
    /\ coeffs[1] # 0 /\ coeffs[NCoeffs] # 0

=============================================================================
